---- MODULE Spec2Model ----
(***************************************************************************)
(* Invoice verification server (Kavish-12345/invoiceServer).               *)
(*                                                                         *)
(* The repository holds five near-duplicate deployments of the same        *)
(* service:                                                                *)
(*   "srv1"  src/server.js lines 1-350     (epsilon amount comparison)     *)
(*   "srv2"  src/server.js lines 351-930   (exact amount comparison, bulk) *)
(*   "api1"  src/api/index.js lines 1-249  (identifier only, no auth)      *)
(*   "api2"  src/api/index.js lines 250-583                                *)
(*   "api3"  src/unnamed/part_001                                          *)
(*                                                                         *)
(* JavaScript strings are sequences of one-character strings, JavaScript   *)
(* values are records [t, s, n] tagged with their typeof, and numbers are  *)
(* short decimals that are rounded to IEEE-754 binary64 where the code     *)
(* does arithmetic on them.                                                *)
(***************************************************************************)
EXTENDS Integers, Sequences, FiniteSets, TLC

(***************************************************************************)
(* Strings                                                                 *)
(***************************************************************************)
DigitChars == <<"0", "1", "2", "3", "4", "5", "6", "7", "8", "9">>

IsDigit(c) == \E d \in 1..10 : DigitChars[d] = c

DigitVal(c) == (CHOOSE d \in 1..10 : DigitChars[d] = c) - 1

\* String.prototype.trim's white space (the part of it the inputs use)
WhiteSpace == {" ", "\t"}

RECURSIVE TrimStart(_)
TrimStart(s) ==
  IF s # <<>> /\ Head(s) \in WhiteSpace THEN TrimStart(Tail(s)) ELSE s

RECURSIVE TrimEnd(_)
TrimEnd(s) ==
  IF s # <<>> /\ s[Len(s)] \in WhiteSpace
    THEN TrimEnd(SubSeq(s, 1, Len(s) - 1))
    ELSE s

\* String.prototype.trim
Trim(s) == TrimEnd(TrimStart(s))

\* idStr.replace(/^0+/, '')
RECURSIVE StripLeadingZeros(_)
StripLeadingZeros(s) ==
  IF s # <<>> /\ Head(s) = "0" THEN StripLeadingZeros(Tail(s)) ELSE s

\* String.prototype.startsWith
StartsWith(s, p) == Len(s) >= Len(p) /\ SubSeq(s, 1, Len(p)) = p

\* the decimal digits of a natural number, as Number.prototype.toString
\* writes them
RECURSIVE NatToStr(_)
NatToStr(n) ==
  IF n < 10 THEN <<DigitChars[n + 1]>>
  ELSE NatToStr(n \div 10) \o <<DigitChars[(n % 10) + 1]>>

(***************************************************************************)
(* JavaScript values                                                       *)
(*   n is a number: [k |-> "fin", i |-> integer part, fd |-> fraction      *)
(*   digits without trailing zeros] or k = "nan".  Numbers are             *)
(*   non-negative and below 2^20, which covers every seeded amount.        *)
(***************************************************************************)
NoNum == [k |-> "none", i |-> 0, fd |-> <<>>]

NaN == [k |-> "nan", i |-> 0, fd |-> <<>>]

Dec(i, fd) == [k |-> "fin", i |-> i, fd |-> fd]

Undefined == [t |-> "undefined", s |-> <<>>, n |-> NoNum]

Null == [t |-> "null", s |-> <<>>, n |-> NoNum]

Str(s) == [t |-> "string", s |-> s, n |-> NoNum]

Num(i, fd) == [t |-> "number", s |-> <<>>, n |-> Dec(i, fd)]

NumNaN == [t |-> "number", s |-> <<>>, n |-> NaN]

\* true and false; s is the text String(value) gives
Bool(b) ==
  [t |-> "boolean",
   s |-> IF b THEN <<"t", "r", "u", "e">> ELSE <<"f", "a", "l", "s", "e">>,
   n |-> NoNum]

\* a plain object such as {}: String(value) is "[object Object]"
PlainObject ==
  [t |-> "object",
   s |-> <<"[", "o", "b", "j", "e", "c", "t", " ",
           "O", "b", "j", "e", "c", "t", "]">>,
   n |-> NoNum]

\* an array; s is the text of its elements joined by ",", which is what
\* String(value) and value.toString() give
Arr(text) == [t |-> "array", s |-> text, n |-> NoNum]

\* an object whose own toString property is not a function, such as
\* {"toString": 1}: every conversion to a string throws a TypeError
OpaqueObject == [t |-> "opaque", s |-> <<>>, n |-> NoNum]

\* String(value), `${value}`, value.toString() and parseFloat(value) throw
StringifyThrows(v) == v.t = "opaque"

\* String(number): shortest decimal that reads back as the number
NumToStr(n) ==
  IF n.k = "nan" THEN <<"N", "a", "N">>
  ELSE NatToStr(n.i) \o
       (IF n.fd = <<>> THEN <<>>
        ELSE <<".">> \o [j \in 1..Len(n.fd) |-> DigitChars[n.fd[j] + 1]])

\* String(value) for the values that have a string form; the code paths
\* that convert test StringifyThrows first
ToStr(v) ==
  CASE v.t = "string" -> v.s
    [] v.t = "number" -> NumToStr(v.n)
    [] v.t = "null" -> <<"n", "u", "l", "l">>
    [] v.t \in {"boolean", "object", "array"} -> v.s
    [] OTHER -> <<"u", "n", "d", "e", "f", "i", "n", "e", "d">>

\* ToBoolean: undefined, null, "", 0, NaN and false are falsy
Truthy(v) ==
  CASE v.t = "string" -> v.s # <<>>
    [] v.t = "number" -> v.n.k = "fin" /\ ~(v.n.i = 0 /\ v.n.fd = <<>>)
    [] v.t = "boolean" -> v.s = <<"t", "r", "u", "e">>
    [] v.t \in {"object", "array", "opaque"} -> TRUE
    [] OTHER -> FALSE

(***************************************************************************)
(* Identifier normalizer                                                   *)
(***************************************************************************)
\* plausible slip: the "|| '0'" fallback is lost
normalizeInvoiceId_noZeroFallback(invoiceId) ==
  IF invoiceId.t \in {"null", "undefined"} \/ invoiceId = Str(<<>>)
    THEN Null
  ELSE LET idStr == Trim(ToStr(invoiceId)) IN
       IF idStr = <<"0">> THEN Str(<<"0">>)
       ELSE Str(StripLeadingZeros(idStr))

\* plausible slip: replace(/^0/, '') removes one leading zero only
normalizeInvoiceId_stripsOne(invoiceId) ==
  IF invoiceId.t \in {"null", "undefined"} \/ invoiceId = Str(<<>>)
    THEN Null
  ELSE LET idStr == Trim(ToStr(invoiceId)) IN
       IF idStr = <<"0">> THEN Str(<<"0">>)
       ELSE LET stripped == IF idStr # <<>> /\ Head(idStr) = "0"
                              THEN Tail(idStr) ELSE idStr
            IN IF stripped = <<>> THEN Str(<<"0">>) ELSE Str(stripped)

\* normalizeInvoiceId: null for null, undefined and ''; otherwise the
\* trimmed string without leading zeros, or '0' when nothing is left
normalizeInvoiceId(invoiceId) ==
  IF invoiceId.t \in {"null", "undefined"} \/ invoiceId = Str(<<>>)
    THEN Null
  ELSE LET idStr == Trim(ToStr(invoiceId)) IN
       IF idStr = <<"0">> THEN Str(<<"0">>)
       ELSE LET stripped == StripLeadingZeros(idStr) IN
            IF stripped = <<>> THEN Str(<<"0">>) ELSE Str(stripped)

(***************************************************************************)
(* Numbers: IEEE-754 binary64 on the model's range                         *)
(*   A double is a fixed-point bit vector, most significant bit first:     *)
(*   one limb of LimbBits bits before the binary point and FracLimbs limbs *)
(*   after it, with at most SignificandBits significant bits.  This is     *)
(*   exact for 0 and for every value in [2^-34, 2^22), and so are the      *)
(*   differences of such values.                                           *)
(***************************************************************************)
SignificandBits == 53

LimbBits == 22

FracLimbs == 4

LimbBase == 2 ^ LimbBits

\* the binary digits of a natural number below 2^w, w of them
NatBits(n, w) == [j \in 1..w |-> (n \div (2 ^ (w - j))) % 2]

\* the natural number with the binary digits bits
RECURSIVE BitsToNat(_)
BitsToNat(bits) ==
  IF bits = <<>> THEN 0
  ELSE 2 * BitsToNat(SubSeq(bits, 1, Len(bits) - 1)) + bits[Len(bits)]

\* m times the decimal fraction 0.fd: [c |-> integer part, d |-> digits]
RECURSIVE ScaleFraction(_, _)
ScaleFraction(fd, m) ==
  IF fd = <<>> THEN [c |-> 0, d |-> <<>>]
  ELSE LET rest == ScaleFraction(Tail(fd), m)
           v == m * Head(fd) + rest.c
       IN [c |-> v \div 10, d |-> <<v % 10>> \o rest.d]

\* the first count limbs of the binary expansion of 0.fd, and whether
\* anything is left after them
RECURSIVE FractionLimbs(_, _)
FractionLimbs(fd, count) ==
  IF count = 0
    THEN [limbs |-> <<>>, sticky |-> \E j \in 1..Len(fd) : fd[j] # 0]
  ELSE LET t == ScaleFraction(fd, LimbBase)
           rest == FractionLimbs(t.d, count - 1)
       IN [limbs |-> <<t.c>> \o rest.limbs, sticky |-> rest.sticky]

\* limbs to bits and back
RECURSIVE LimbsToBits(_)
LimbsToBits(limbs) ==
  IF limbs = <<>> THEN <<>>
  ELSE NatBits(Head(limbs), LimbBits) \o LimbsToBits(Tail(limbs))

BitsToLimbs(bits) ==
  [q \in 1..(Len(bits) \div LimbBits) |->
     BitsToNat(SubSeq(bits, LimbBits * (q - 1) + 1, LimbBits * q))]

\* add one unit in the place pos: the carry runs through the ones before it
AddAt(bits, pos) ==
  IF \A j \in 1..pos : bits[j] = 1 THEN bits
  ELSE LET z == CHOOSE j \in 1..pos :
                  bits[j] = 0 /\ \A k \in (j + 1)..pos : bits[k] = 1
       IN [j \in 1..Len(bits) |->
             IF j < z \/ j > pos THEN bits[j] ELSE IF j = z THEN 1 ELSE 0]

\* round to nearest, ties to even, at SignificandBits significant bits
RoundToDouble(bits, sticky) ==
  IF \A j \in 1..Len(bits) : bits[j] = 0 THEN bits
  ELSE LET p == CHOOSE j \in 1..Len(bits) :
                  bits[j] = 1 /\ \A k \in 1..(j - 1) : bits[k] = 0
           last == p + SignificandBits - 1
       IN IF last >= Len(bits) THEN bits
          ELSE LET guard == bits[last + 1]
                   more == sticky \/ \E j \in (last + 2)..Len(bits) : bits[j] = 1
                   kept == [j \in 1..Len(bits) |-> IF j <= last THEN bits[j] ELSE 0]
               IN IF guard = 1 /\ (more \/ bits[last] = 1)
                    THEN AddAt(kept, last)
                    ELSE kept

NaNDouble == [nan |-> TRUE, bits |-> <<>>]

\* the double nearest to a decimal literal
ToDouble(n) ==
  IF n.k # "fin" THEN NaNDouble
  ELSE LET f == FractionLimbs(n.fd, FracLimbs)
       IN [nan |-> FALSE,
           bits |-> RoundToDouble(LimbsToBits(<<n.i>> \o f.limbs), f.sticky)]

\* a < b on bit vectors of one length
BitsLess(a, b) ==
  \E j \in 1..Len(a) : a[j] < b[j] /\ \A k \in 1..(j - 1) : a[k] = b[k]

\* a - b for a >= b on limbs 1..q, with a borrow coming in from limb q + 1
RECURSIVE LimbsMinus(_, _, _, _)
LimbsMinus(a, b, q, borrow) ==
  IF q = 0 THEN <<>>
  ELSE LET d == a[q] - b[q] - borrow
       IN LimbsMinus(a, b, q - 1, IF d < 0 THEN 1 ELSE 0)
            \o <<IF d < 0 THEN d + LimbBase ELSE d>>

\* Math.abs(x - y)
AbsDifference(x, y) ==
  IF x.nan \/ y.nan THEN NaNDouble
  ELSE LET hi == BitsToLimbs(IF BitsLess(x.bits, y.bits) THEN y.bits ELSE x.bits)
           lo == BitsToLimbs(IF BitsLess(x.bits, y.bits) THEN x.bits ELSE y.bits)
       IN [nan |-> FALSE,
           bits |-> RoundToDouble(
                      LimbsToBits(LimbsMinus(hi, lo, Len(hi), 0)), FALSE)]

\* x > y: false when either is NaN
GreaterThan(x, y) == ~x.nan /\ ~y.nan /\ BitsLess(y.bits, x.bits)

\* x !== y on numbers: true when either is NaN
StrictNotEqual(x, y) == x.nan \/ y.nan \/ x.bits # y.bits

(***************************************************************************)
(* parseFloat                                                              *)
(*   Leading white space is skipped and the longest prefix that is a       *)
(*   decimal literal is read; NaN when there is none.  Signs, exponents    *)
(*   and "Infinity" are outside the model's alphabet.                      *)
(***************************************************************************)
RECURSIVE DigitPrefix(_)
DigitPrefix(s) ==
  IF s # <<>> /\ IsDigit(Head(s))
    THEN <<Head(s)>> \o DigitPrefix(Tail(s))
    ELSE <<>>

RECURSIVE DigitsToNat(_)
DigitsToNat(ds) ==
  IF ds = <<>> THEN 0
  ELSE 10 * DigitsToNat(SubSeq(ds, 1, Len(ds) - 1)) + DigitVal(ds[Len(ds)])

RECURSIVE DropTrailingZeros(_)
DropTrailingZeros(fd) ==
  IF fd # <<>> /\ fd[Len(fd)] = 0
    THEN DropTrailingZeros(SubSeq(fd, 1, Len(fd) - 1))
    ELSE fd

parseFloatStr(str) ==
  LET s == TrimStart(str)
      ip == DigitPrefix(s)
      after == SubSeq(s, Len(ip) + 1, Len(s))
      fp == IF after # <<>> /\ Head(after) = "."
              THEN DigitPrefix(Tail(after))
              ELSE <<>>
  IN IF ip = <<>> /\ fp = <<>> THEN NaN
     ELSE Dec(DigitsToNat(ip),
              DropTrailingZeros([j \in 1..Len(fp) |-> DigitVal(fp[j])]))

\* parseFloat(value): the argument is converted to a string first
parseFloat(v) ==
  IF v.t = "number" THEN v.n ELSE parseFloatStr(ToStr(v))

(***************************************************************************)
(* Record stores: the mockInvoices object literal of each deployment       *)
(***************************************************************************)
Invoice(id, amount, status) ==
  [id |-> NatToStr(id), amount |-> amount, status |-> status]

mockInvoices_srv1 ==
  {
    Invoice(1001, Dec(1250, <<5>>), "pending"),
    Invoice(1002, Dec(3750, <<>>), "pending"),
    Invoice(1003, Dec(890, <<2, 5>>), "pending"),
    Invoice(12345, Dec(5000, <<>>), "pending"),
    Invoice(99999, Dec(999, <<9, 9>>), "pending"),
    Invoice(2001, Dec(3200, <<>>), "paid"),
    Invoice(2002, Dec(1800, <<7, 5>>), "rejected")
  }

mockInvoices_srv2 ==
  {
    Invoice(1001, Dec(1250, <<5>>), "pending"),
    Invoice(1002, Dec(3750, <<>>), "pending"),
    Invoice(1003, Dec(890, <<2, 5>>), "pending"),
    Invoice(1004, Dec(15000, <<>>), "pending"),
    Invoice(1005, Dec(2200, <<7, 5>>), "pending"),
    Invoice(1006, Dec(450, <<>>), "pending"),
    Invoice(1007, Dec(8500, <<>>), "pending"),
    Invoice(1008, Dec(1875, <<3>>), "pending"),
    Invoice(1009, Dec(12000, <<>>), "pending"),
    Invoice(1010, Dec(675, <<5>>), "pending"),
    Invoice(12345, Dec(5000, <<>>), "pending"),
    Invoice(99999, Dec(999, <<9, 9>>), "pending"),
    Invoice(55555, Dec(7500, <<2, 5>>), "pending"),
    Invoice(2001, Dec(3200, <<>>), "paid"),
    Invoice(2002, Dec(1800, <<7, 5>>), "rejected"),
    Invoice(2003, Dec(4500, <<>>), "paid"),
    Invoice(2004, Dec(950, <<2, 5>>), "cancelled"),
    Invoice(2005, Dec(6750, <<>>), "disputed"),
    Invoice(3001, Dec(50000, <<>>), "pending"),
    Invoice(3002, Dec(75000, <<5>>), "pending"),
    Invoice(3003, Dec(125000, <<>>), "pending"),
    Invoice(4001, Dec(25, <<9, 9>>), "pending"),
    Invoice(4002, Dec(89, <<5>>), "pending"),
    Invoice(4003, Dec(15, <<7, 5>>), "pending"),
    Invoice(5001, Dec(3500, <<>>), "pending"),
    Invoice(5002, Dec(8200, <<>>), "pending"),
    Invoice(5003, Dec(1250, <<>>), "pending"),
    Invoice(6001, Dec(0, <<0, 1>>), "pending"),
    Invoice(6002, Dec(999999, <<9, 9>>), "pending"),
    Invoice(6003, Dec(1000, <<0, 0, 1>>), "pending")
  }

\* the three api deployments seed the same records, without amounts
mockInvoices_api ==
  {
    Invoice(1001, NoNum, "pending"),
    Invoice(1002, NoNum, "pending"),
    Invoice(1003, NoNum, "pending"),
    Invoice(12345, NoNum, "pending"),
    Invoice(99999, NoNum, "pending"),
    Invoice(100, NoNum, "pending"),
    Invoice(200, NoNum, "pending"),
    Invoice(300, NoNum, "pending"),
    Invoice(2001, NoNum, "pending"),
    Invoice(2002, NoNum, "pending"),
    Invoice(5000, NoNum, "pending"),
    Invoice(6000, NoNum, "pending"),
    Invoice(7000, NoNum, "pending"),
    Invoice(0, NoNum, "pending")
  }

Variants == {"srv1", "srv2", "api1", "api2", "api3"}

ServerVariants == {"srv1", "srv2"}

ApiVariants == {"api1", "api2", "api3"}

\* the table literal of a deployment, as written in its source
mockInvoicesLiteral(variant) ==
  CASE variant = "srv1" -> mockInvoices_srv1
    [] variant = "srv2" -> mockInvoices_srv2
    [] OTHER -> mockInvoices_api

\* the records each deployment answers from
VARIABLE store

\* the table a call of the deployment looks its key up in
mockInvoices(variant) == store[variant]

\* plausible slip: a verified invoice is marked as paid in the table
storeAfterVerify_marksPaid(tables, variant, invoiceId) ==
  IF invoiceId.t = "string"
    THEN [tables EXCEPT ![variant] =
            {IF r.id = invoiceId.s THEN [r EXCEPT !.status = "paid"] ELSE r
               : r \in @}]
    ELSE tables

\* what a call of the engine leaves in the tables: the engines only read
\* mockInvoices[...] and assign to no record
storeAfterVerify(tables, variant, invoiceId) == tables

SeededIds(variant) == {r.id : r \in mockInvoices(variant)}

\* property names every object literal inherits from Object.prototype
ObjectPrototypeKeys ==
  {
    <<"c", "o", "n", "s", "t", "r", "u", "c", "t", "o", "r">>,
    <<"t", "o", "S", "t", "r", "i", "n", "g">>,
    <<"v", "a", "l", "u", "e", "O", "f">>,
    <<"_", "_", "p", "r", "o", "t", "o", "_", "_">>,
    <<"h", "a", "s", "O", "w", "n", "P", "r", "o", "p", "e", "r", "t", "y">>,
    <<"i", "s", "P", "r", "o", "t", "o", "t", "y", "p", "e", "O", "f">>,
    <<"p", "r", "o", "p", "e", "r", "t", "y", "I", "s",
      "E", "n", "u", "m", "e", "r", "a", "b", "l", "e">>,
    <<"t", "o", "L", "o", "c", "a", "l", "e", "S", "t", "r", "i", "n", "g">>,
    <<"_", "_", "d", "e", "f", "i", "n", "e",
      "G", "e", "t", "t", "e", "r", "_", "_">>,
    <<"_", "_", "d", "e", "f", "i", "n", "e",
      "S", "e", "t", "t", "e", "r", "_", "_">>,
    <<"_", "_", "l", "o", "o", "k", "u", "p",
      "G", "e", "t", "t", "e", "r", "_", "_">>,
    <<"_", "_", "l", "o", "o", "k", "u", "p",
      "S", "e", "t", "t", "e", "r", "_", "_">>
  }

NoInvoice == [kind |-> "undefined", amount |-> NoNum, status |-> "undefined"]

\* mockInvoices[key]: the own property, else the property inherited from
\* Object.prototype (a function or object without amount and status), else
\* undefined
PropertyGet(table, key) ==
  IF \E r \in table : r.id = key
    THEN LET r == CHOOSE r \in table : r.id = key
         IN [kind |-> "record", amount |-> r.amount, status |-> r.status]
  ELSE IF key \in ObjectPrototypeKeys
    THEN [kind |-> "inherited", amount |-> NoNum, status |-> "undefined"]
  ELSE NoInvoice

(***************************************************************************)
(* Verification engines                                                    *)
(*   Each returns [isValid, caught, waited, raised]: the verdict, whether  *)
(*   the engine's own catch block produced it, whether the call went       *)
(*   through the simulated lookup delay, and whether an exception left the *)
(*   engine.                                                               *)
(***************************************************************************)
Verdict(isValid, caught, waited) ==
  [isValid |-> isValid, caught |-> caught, waited |-> waited,
   raised |-> FALSE]

\* an exception raised inside the engine's try block
Raise(waited) ==
  [isValid |-> FALSE, caught |-> FALSE, waited |-> waited, raised |-> TRUE]

\* plausible slip: the catch block rethrows
catchError_rethrows(outcome) == outcome

\* catch (error) { return false }
catchError(outcome) ==
  IF outcome.raised THEN Verdict(FALSE, TRUE, outcome.waited) ELSE outcome

\* const epsilon = 0.001
epsilon == ToDouble(Dec(0, <<0, 0, 1>>))

\* plausible slip: the status check is dropped
statusRejects_dropped(invoice) == FALSE

\* if (invoice.status !== 'pending') return false
statusRejects(invoice) == invoice.status # "pending"

\* srv1: typeof amount must be string or number; the difference to the
\* record amount must not exceed epsilon
amountRejects_srv1(invoice, amount) ==
  IF amount.t \notin {"string", "number"} THEN TRUE
  ELSE LET expectedAmount ==
             ToDouble(parseFloat([t |-> "number", s |-> <<>>,
                                  n |-> invoice.amount]))
           providedAmount == ToDouble(parseFloat(amount))
           amountDifference == AbsDifference(expectedAmount, providedAmount)
       IN GreaterThan(amountDifference, epsilon)

\* srv2: parseFloat(invoice.amount) !== parseFloat(amount)
amountRejects_srv2(invoice, amount) ==
  StrictNotEqual(
    ToDouble(parseFloat([t |-> "number", s |-> <<>>, n |-> invoice.amount])),
    ToDouble(parseFloat(amount)))

amountRejects(variant, invoice, amount) ==
  IF variant = "srv1" THEN amountRejects_srv1(invoice, amount)
  ELSE amountRejects_srv2(invoice, amount)

\* plausible slip: the delay comes first in every engine
engineWaits_always(variant, invoiceId, amount) == TRUE

\* whether a call suspends in the lookup delay: srv1 logs `${invoiceId}`
\* and `${amount}` first, which can throw; srv2 always waits; the api
\* engines log `${invoiceId}` and return false before the delay when
\* normalization fails
engineWaits(variant, invoiceId, amount) ==
  CASE variant = "srv1" ->
         ~StringifyThrows(invoiceId) /\ ~StringifyThrows(amount)
    [] variant = "srv2" -> TRUE
    [] OTHER ->
         ~StringifyThrows(invoiceId) /\ normalizeInvoiceId(invoiceId) # Null

\* the try block of server.js: the logging of srv1, the delay,
\* invoiceId.toString() (a TypeError for null, undefined and an object
\* without a callable toString), lookup, status check, amount check
\* (in srv2 parseFloat(amount) can throw)
tryBlock_srv(variant, invoiceId, amount) ==
  IF ~engineWaits(variant, invoiceId, amount) THEN Raise(FALSE)
  ELSE IF invoiceId.t \in {"null", "undefined"} \/ StringifyThrows(invoiceId)
    THEN Raise(TRUE)
  ELSE LET invoice == PropertyGet(mockInvoices(variant), ToStr(invoiceId))
       IN IF invoice.kind = "undefined" THEN Verdict(FALSE, FALSE, TRUE)
          ELSE IF statusRejects(invoice) THEN Verdict(FALSE, FALSE, TRUE)
          ELSE IF variant = "srv2" /\ StringifyThrows(amount) THEN Raise(TRUE)
          ELSE IF amountRejects(variant, invoice, amount)
            THEN Verdict(FALSE, FALSE, TRUE)
          ELSE Verdict(TRUE, FALSE, TRUE)

verifyInvoiceLogic_srv(variant, invoiceId, amount) ==
  catchError(tryBlock_srv(variant, invoiceId, amount))

\* the try block of the api engines: logging, normalize (null returns
\* false at once), delay, lookup
tryBlock_api(variant, invoiceId) ==
  IF StringifyThrows(invoiceId) THEN Raise(FALSE)
  ELSE LET normalizedId == normalizeInvoiceId(invoiceId)
       IN IF normalizedId = Null THEN Verdict(FALSE, FALSE, FALSE)
          ELSE LET invoice == PropertyGet(mockInvoices(variant), normalizedId.s)
               IN IF invoice.kind = "undefined" THEN Verdict(FALSE, FALSE, TRUE)
                  ELSE Verdict(TRUE, FALSE, TRUE)

verifyInvoiceLogic_api(variant, invoiceId) ==
  catchError(tryBlock_api(variant, invoiceId))

\* the whole call, from invocation to the returned verdict
verifyInvoiceLogic(variant, invoiceId, amount) ==
  IF variant \in ServerVariants
    THEN verifyInvoiceLogic_srv(variant, invoiceId, amount)
    ELSE verifyInvoiceLogic_api(variant, invoiceId)

(***************************************************************************)
(* HTTP handlers                                                           *)
(*   A request is [variant, endpoint, auth, invoiceId, amount]: the        *)
(*   deployment that receives it, the route, the Authorization header and  *)
(*   the two body fields.  Endpoints: "verify" is POST /api/verify-invoice,*)
(*   "debug" is POST /debug/verify-invoice, "test" is                      *)
(*   POST /api/test-verification.                                          *)
(***************************************************************************)
Endpoints == {"verify", "debug", "test"}

BearerPrefix == <<"B", "e", "a", "r", "e", "r", " ">>

\* the part of s before its first space (all of s when it has none)
RECURSIVE UpToSpace(_)
UpToSpace(s) ==
  IF s = <<>> \/ Head(s) = " " THEN <<>>
  ELSE <<Head(s)>> \o UpToSpace(Tail(s))

\* authHeader.split(' ')[1]
SplitSecond(s) ==
  LET first == UpToSpace(s)
  IN IF Len(first) = Len(s) THEN Undefined
     ELSE Str(UpToSpace(SubSeq(s, Len(first) + 2, Len(s))))

IsZero(v) == v.t = "number" /\ v.n = Dec(0, <<>>)

Reject(status, isValid, message) ==
  [go |-> FALSE, status |-> status, isValid |-> isValid, message |-> message,
   invoiceId |-> Undefined, amount |-> Undefined]

Invoke(invoiceId, amount) ==
  [go |-> TRUE, status |-> 200, isValid |-> "absent", message |-> "",
   invoiceId |-> invoiceId, amount |-> amount]

\* plausible slip: the token comparison is dropped
bearerCheck_anyToken(variant, auth, key) ==
  IF ~Truthy(auth) \/ ~StartsWith(auth.s, BearerPrefix)
    THEN Reject(401, "absent", "Valid Bearer token required")
    ELSE Invoke(Undefined, Undefined)

\* the Authorization check of server.js's POST /api/verify-invoice:
\* a rejection, or Invoke when the request is let through
bearerCheck(variant, auth, key) ==
  IF ~Truthy(auth) \/ ~StartsWith(auth.s, BearerPrefix)
    THEN Reject(401, "absent", "Valid Bearer token required")
  ELSE LET token == SplitSecond(auth.s)
       IN IF variant = "srv1" /\ ~Truthy(key)
            THEN Reject(500, "absent", "API key not configured")
          ELSE IF ~Truthy(key) \/ token # key
            THEN Reject(401, "absent", "Invalid API key")
          ELSE Invoke(Undefined, Undefined)

\* the parameter validation of POST /api/verify-invoice
missingParameters(r) ==
  CASE r.variant = "srv1" ->
         IF ~Truthy(r.invoiceId)
           THEN Reject(400, "absent", "invoiceId is required")
         ELSE IF ~Truthy(r.amount) /\ ~IsZero(r.amount)
           THEN Reject(400, "absent", "amount is required")
         ELSE Invoke(r.invoiceId, r.amount)
    [] r.variant = "srv2" ->
         IF ~Truthy(r.invoiceId) \/ ~Truthy(r.amount)
           THEN Reject(400, "absent", "Both invoiceId and amount are required")
           ELSE Invoke(r.invoiceId, r.amount)
    [] r.variant = "api2" ->
         IF ~Truthy(r.invoiceId) /\ ~IsZero(r.invoiceId)
              /\ r.invoiceId # Str(<<"0">>)
           THEN Reject(400, "false", "invoiceId is required")
           ELSE Invoke(r.invoiceId, Undefined)
    [] OTHER ->
         IF r.invoiceId.t \in {"undefined", "null"}
           THEN Reject(400, "false", "invoiceId is required")
           ELSE Invoke(r.invoiceId, Undefined)

\* which routes each deployment registers
HasEndpoint(variant, endpoint) ==
  CASE endpoint = "verify" -> TRUE
    [] endpoint = "debug" -> variant \in {"srv1", "api1", "api2", "api3"}
    [] OTHER -> variant \in {"srv1", "srv2", "api2"}

\* destructuring default: used when the field is undefined
Default(v, d) == IF v.t = "undefined" THEN d ELSE v

\* the handler's catch block: 500 with isValid false
handlerCatch ==
  Reject(500, "false", "Cannot convert object to primitive value")

\* POST /api/verify-invoice logs `${invoiceId}` (server.js also
\* `${amount}`) just before the engine call; api1 and api3 log the value
\* without converting it
handlerLogThrows(r) ==
  \/ r.variant \in ServerVariants
       /\ (StringifyThrows(r.invoiceId) \/ StringifyThrows(r.amount))
  \/ r.variant = "api2" /\ StringifyThrows(r.invoiceId)

\* what the handler converts while it builds the response, after the
\* engine has returned: parseFloat(amount) in srv1's debug route,
\* normalizeInvoiceId(invoiceId) in the api debug routes and in api2's
\* verify and test routes
responseThrows(r, c) ==
  \/ r.variant = "srv1" /\ r.endpoint = "debug" /\ StringifyThrows(c.amount)
  \/ r.variant \in ApiVariants /\ r.endpoint = "debug"
       /\ StringifyThrows(c.invoiceId)
  \/ r.variant = "api2" /\ r.endpoint \in {"verify", "test"}
       /\ StringifyThrows(c.invoiceId)

\* the message field of the 404 fallback: `${req.method} ${req.path} is not
\* a valid endpoint`; the '/api/*' fallback of the first api/index.js
\* variant sends a body without a message field
notFoundMessage(variant, endpoint) ==
  IF variant = "api1" THEN ""
  ELSE CASE endpoint = "verify" ->
              "POST /api/verify-invoice is not a valid endpoint"
         [] endpoint = "debug" ->
              "POST /debug/verify-invoice is not a valid endpoint"
         [] OTHER -> "POST /api/test-verification is not a valid endpoint"

\* the handler up to its call of verifyInvoiceLogic: a rejection, or the
\* arguments the engine is invoked with
Admit(r, key) ==
  IF ~HasEndpoint(r.variant, r.endpoint)
    THEN Reject(404, "absent", notFoundMessage(r.variant, r.endpoint))
  ELSE IF r.endpoint = "debug"
    THEN Invoke(r.invoiceId,
                IF r.variant = "srv1" THEN r.amount ELSE Undefined)
  ELSE IF r.endpoint = "test"
    THEN Invoke(Default(r.invoiceId, Str(NatToStr(12345))),
                IF r.variant \in ServerVariants
                  THEN Default(r.amount, Str(NatToStr(5000)))
                  ELSE Undefined)
  ELSE LET params == missingParameters(r)
           auth == IF r.variant \in ApiVariants THEN params
                   ELSE bearerCheck(r.variant, r.auth, key)
       IN IF ~params.go THEN params
          ELSE IF ~auth.go THEN auth
          ELSE IF handlerLogThrows(r) THEN handlerCatch
          ELSE params

\* plausible slip: the message does not follow the verdict
VerdictResponse_alwaysVerified(r, isValid) ==
  [status |-> 200,
   isValid |-> IF isValid THEN "true" ELSE "false",
   message |-> "Invoice verified successfully"]

\* the body of the response that carries the engine's verdict
VerdictResponse(r, isValid) ==
  [status |-> 200,
   isValid |-> IF isValid THEN "true" ELSE "false",
   message |->
     IF r.endpoint = "verify"
       THEN IF isValid THEN "Invoice verified successfully"
                       ELSE "Invoice verification failed"
     ELSE IF r.endpoint = "test" THEN "Test verification completed"
     ELSE ""]

\* the response once the engine call is over: the handler's catch block
\* answers when an exception left the engine or the response cannot be
\* built
respondAfterEngine(r, c, outcome) ==
  IF outcome.raised \/ responseThrows(r, c)
    THEN [status |-> handlerCatch.status, isValid |-> handlerCatch.isValid,
          message |-> handlerCatch.message]
    ELSE VerdictResponse(r, outcome.isValid)

(***************************************************************************)
(* Inputs                                                                  *)
(***************************************************************************)
S12345 == NatToStr(12345)

ConfiguredKey == <<"k", "1">>

\* process.env.API_KEY: unset, empty, set
ApiKeyInputs == {Undefined, Str(<<>>), Str(ConfiguredKey)}

ValidAuth == Str(BearerPrefix \o ConfiguredKey)

\* the scheme alone: what arrives when nothing follows it, since the HTTP
\* parser drops white space at the end of a header value
BareBearer == Str(<<"B", "e", "a", "r", "e", "r">>)

AuthInputs ==
  {
    Undefined,
    ValidAuth,
    Str(BearerPrefix \o <<"z", "z">>),
    Str(<<"B", "a", "s", "i", "c", " ">> \o ConfiguredKey),
    Str(BearerPrefix \o ConfiguredKey \o <<" ", "x">>),
    Str(BearerPrefix \o <<" ">> \o ConfiguredKey),
    BareBearer
  }

InvoiceIdInputs ==
  {
    Undefined, Null, Str(<<>>), Str(<<" ", " ">>),
    Str(<<"0">>), Str(<<"0", "0">>), Str(<<"0", "0", "7">>),
    Str(<<"0", " ", "1", "2">>),
    Str(S12345), Str(<<"0">> \o S12345), Str(<<" ">> \o S12345 \o <<" ">>),
    Num(12345, <<>>), Num(0, <<>>), Num(2001, <<>>),
    Str(NatToStr(99999)), Str(NatToStr(1001)), Str(NatToStr(1002)),
    Str(NatToStr(2001)), Str(NatToStr(2002)), Str(NatToStr(2004)),
    Str(NatToStr(2005)), Str(NatToStr(6003)), Str(NatToStr(77777)),
    Str(<<"c", "o", "n", "s", "t", "r", "u", "c", "t", "o", "r">>),
    Str(<<"h", "a", "s", "O", "w", "n", "P", "r", "o", "p", "e", "r", "t", "y">>),
    Bool(TRUE), Bool(FALSE), PlainObject, Arr(S12345), OpaqueObject
  }

AmountInputs ==
  {
    Undefined, Null, Str(<<>>), Str(<<"a", "b", "c">>),
    Str(NatToStr(5000) \o <<"a", "b", "c">>),
    Num(0, <<>>), Num(5000, <<>>), Num(5000, <<0, 0, 1>>),
    Str(NatToStr(5000)), Str(NatToStr(9999)), Str(NatToStr(1000)),
    Str(NumToStr(Dec(5000, <<0, 0>>))),
    Str(NumToStr(Dec(5000, <<0, 0, 0, 5>>))),
    Str(NumToStr(Dec(5000, <<0, 0, 1>>))),
    Str(NumToStr(Dec(5000, <<0, 0, 1, 1>>))),
    Str(NumToStr(Dec(4999, <<9, 9, 9>>))),
    Str(NumToStr(Dec(1250, <<5>>))),
    Str(NumToStr(Dec(1250, <<5, 0, 1>>))),
    Str(NumToStr(Dec(1250, <<5, 0, 1, 1>>))),
    Str(NumToStr(Dec(3750, <<0, 0, 1>>))),
    Str(NumToStr(Dec(999, <<9, 9>>))),
    Str(NatToStr(3200)), Str(NumToStr(Dec(1800, <<7, 5>>))),
    Str(NumToStr(Dec(950, <<2, 5>>))), Str(NatToStr(6750)),
    Str(NumToStr(Dec(1000, <<0, 0, 1>>))),
    Str(NumToStr(Dec(1000, <<0, 0, 2>>))),
    Bool(TRUE), PlainObject, Arr(NatToStr(5000)), OpaqueObject
  }

ApiAmountInputs ==
  {Undefined, Str(NatToStr(5000)), Str(<<"a", "b", "c">>), Num(0, <<>>)}

Request(variant, endpoint, auth, invoiceId, amount) ==
  [variant |-> variant, endpoint |-> endpoint, auth |-> auth,
   invoiceId |-> invoiceId, amount |-> amount]

\* every Authorization header against a few bodies, and every body with
\* and without the configured credential
Requests ==
  {Request(v, "verify", a, i, m) :
     v \in Variants, a \in AuthInputs,
     i \in {Undefined, Str(S12345)}, m \in {Undefined, Str(NatToStr(5000))}}
  \cup
  {Request(v, e, a, i, m) :
     v \in ServerVariants, e \in Endpoints, a \in {Undefined, ValidAuth},
     i \in InvoiceIdInputs, m \in AmountInputs}
  \cup
  {Request(v, e, a, i, m) :
     v \in ApiVariants, e \in Endpoints, a \in {Undefined, ValidAuth},
     i \in InvoiceIdInputs, m \in ApiAmountInputs}

(***************************************************************************)
(* State                                                                   *)
(***************************************************************************)
VARIABLES
  apiKey,       \* process.env.API_KEY
  pc,           \* "idle", "received", "lookup" (engine suspended), "settled"
                \* (engine returned, handler not yet resumed), "responded"
  req,          \* the request being handled
  call,         \* the arguments verifyInvoiceLogic was invoked with
  engineCalls,  \* how often the handler invoked verifyInvoiceLogic
  resp,         \* the response sent
  verdict,      \* what the engine call returned, once it is over
  raw,          \* normalizer run: the raw identifier
  step,         \* normalizer run: 0, 1 or 2 applications done
  once,         \* normalizeInvoiceId(raw)
  twice,        \* normalizeInvoiceId(once)
  bulkPc,       \* bulk handler: "idle", "received", "lookup", "settled",
                \* "responded"
  bulkReq,      \* bulk request: Authorization header and body.invoices
  results,      \* bulk handler: the results array built so far
  bulkResp,     \* bulk response
  getPc,        \* GET /api/invoice/:invoiceId: "idle", "received", "responded"
  getReq,       \* GET request: deployment, Authorization header, path parameter
  getResp,      \* GET response
  itemVerdict,  \* bulk handler: the verdict the engine returned for the
                \* current item, until the loop takes it
  responses,    \* how many responses the handler has sent for the request
  inFlight,     \* bulk handler: indices of the items whose lookup is pending
  calls         \* concurrent calls of verifyInvoiceLogic, one per slot

vars ==
  <<apiKey, pc, req, call, engineCalls, resp, verdict, raw, step, once, twice,
    bulkPc, bulkReq, results, bulkResp, getPc, getReq, getResp,
    responses, inFlight, calls, store, itemVerdict>>

httpVars == <<apiKey, pc, req, call, engineCalls, resp, verdict, responses>>

normVars == <<raw, step, once, twice>>

bulkVars == <<bulkPc, bulkReq, results, bulkResp, inFlight, itemVerdict>>

getVars == <<getPc, getReq, getResp>>

concVars == <<calls>>

NoRequest == Request("none", "none", Undefined, Undefined, Undefined)

NoCall == [invoiceId |-> Undefined, amount |-> Undefined]

NoResponse == [status |-> 0, isValid |-> "absent", message |-> ""]

NoVerdict == [done |-> FALSE, outcome |-> Verdict(FALSE, FALSE, FALSE)]

Returned(outcome) == [done |-> TRUE, outcome |-> outcome]

HttpIdle ==
  /\ pc = "idle"
  /\ req = NoRequest
  /\ call = NoCall
  /\ engineCalls = 0
  /\ resp = NoResponse
  /\ verdict = NoVerdict
  /\ responses = 0

NormIdle ==
  /\ raw = Undefined
  /\ step = 0
  /\ once = Undefined
  /\ twice = Undefined

NoBulkRequest == [auth |-> Undefined, invoices |-> [t |-> "undefined", items |-> <<>>]]

NoBulkResponse ==
  [status |-> 0, results |-> <<>>, totalProcessed |-> 0, validCount |-> 0]

NoItemVerdict == [done |-> FALSE, isValid |-> FALSE]

BulkIdle ==
  /\ bulkPc = "idle"
  /\ bulkReq = NoBulkRequest
  /\ results = <<>>
  /\ bulkResp = NoBulkResponse
  /\ inFlight = {}
  /\ itemVerdict = NoItemVerdict

NoGetRequest == [variant |-> "none", auth |-> Undefined, invoiceId |-> <<>>]

NoGetResponse == [status |-> 0, invoice |-> [kind |-> "undefined", id |-> <<>>]]

GetIdle ==
  /\ getPc = "idle"
  /\ getReq = NoGetRequest
  /\ getResp = NoGetResponse

\* bound: how many calls of verifyInvoiceLogic can be in flight at once
MaxCalls == 2

Slots == 1..MaxCalls

NoSlot ==
  [pc |-> "free", variant |-> "none", invoiceId |-> Undefined,
   amount |-> Undefined, overlapped |-> FALSE,
   outcome |-> Verdict(FALSE, FALSE, FALSE)]

ConcIdle == calls = [k \in Slots |-> NoSlot]

\* every deployment starts with the table its source spells out
StoreInit == store = [v \in Variants |-> mockInvoicesLiteral(v)]

Init ==
  /\ apiKey \in ApiKeyInputs
  /\ HttpIdle
  /\ NormIdle
  /\ BulkIdle
  /\ GetIdle
  /\ ConcIdle
  /\ StoreInit

\* a request arrives
Receive ==
  /\ pc = "idle"
  /\ \E r \in Requests : req' = r
  /\ pc' = "received"
  /\ call' = NoCall
  /\ engineCalls' = 0
  /\ resp' = NoResponse
  /\ verdict' = NoVerdict
  /\ responses' = 0
  /\ UNCHANGED <<apiKey, normVars, bulkVars, getVars, concVars, store>>

\* the handler runs up to its first suspension: it rejects the request, or
\* it invokes verifyInvoiceLogic and suspends at `await`; the engine has
\* either returned already or is suspended in the lookup delay
Handle ==
  /\ pc = "received"
  /\ LET adm == Admit(req, apiKey)
         c == [invoiceId |-> adm.invoiceId, amount |-> adm.amount]
     IN IF ~adm.go
          THEN /\ pc' = "responded"
               /\ resp' = [status |-> adm.status, isValid |-> adm.isValid,
                           message |-> adm.message]
               /\ responses' = responses + 1
               /\ UNCHANGED <<call, engineCalls, verdict>>
          ELSE /\ call' = c
               /\ engineCalls' = engineCalls + 1
               /\ IF engineWaits(req.variant, c.invoiceId, c.amount)
                    THEN pc' = "lookup" /\ UNCHANGED <<resp, verdict, responses>>
                    ELSE LET outcome == verifyInvoiceLogic(
                                          req.variant, c.invoiceId, c.amount)
                         IN /\ pc' = "settled"
                            /\ verdict' = Returned(outcome)
                            /\ UNCHANGED <<resp, responses>>
  /\ UNCHANGED <<apiKey, req, normVars, bulkVars, getVars, concVars, store>>

\* plausible slip: after the wait the request is handled all over again
Resume_retries ==
  /\ pc = "lookup"
  /\ pc' = "received"
  /\ UNCHANGED <<apiKey, req, call, engineCalls, resp, verdict, responses,
                 normVars, bulkVars, getVars, concVars, store>>

\* the lookup delay ends: the engine runs to its return
Resume ==
  /\ pc = "lookup"
  /\ LET outcome == verifyInvoiceLogic(req.variant, call.invoiceId, call.amount)
     IN /\ pc' = "settled"
        /\ verdict' = Returned(outcome)
        /\ store' = storeAfterVerify(store, req.variant, call.invoiceId)
  /\ UNCHANGED <<apiKey, req, call, engineCalls, resp, responses, normVars,
                 bulkVars, getVars, concVars>>

\* the handler goes on after `await verifyInvoiceLogic(...)`, in a later
\* microtask than the engine's return, and sends the response
Respond ==
  /\ pc = "settled"
  /\ pc' = "responded"
  /\ resp' = respondAfterEngine(req, call, verdict.outcome)
  /\ responses' = responses + 1
  /\ UNCHANGED <<apiKey, req, call, engineCalls, verdict, normVars, bulkVars,
                 getVars, concVars, store>>

\* the exchange is over; the server waits for the next request
Finish ==
  /\ pc = "responded"
  /\ pc' = "idle"
  /\ req' = NoRequest
  /\ call' = NoCall
  /\ engineCalls' = 0
  /\ resp' = NoResponse
  /\ verdict' = NoVerdict
  /\ responses' = 0
  /\ UNCHANGED <<apiKey, normVars, bulkVars, getVars, concVars, store>>

Next ==
  \/ Receive
  \/ Handle
  \/ Resume
  \/ Respond
  \/ Finish

Spec == Init /\ [][Next]_vars

(***************************************************************************)
(* The normalizer on its own: one raw identifier, normalized twice         *)
(***************************************************************************)
MaxIdLen == 3

IdAlphabet == {"0", "1", " ", "a"}

RawStrings ==
  UNION {[1..n -> IdAlphabet] : n \in 0..MaxIdLen}

RawInputs ==
  {Undefined, Null} \cup {Str(s) : s \in RawStrings}
    \cup {Num(n, <<>>) : n \in {0, 7, 10, 12345}} \cup {Num(0, <<5>>)}
    \cup {Str(<<"0">> \o S12345), Str(<<" ">> \o S12345 \o <<" ">>),
          Str(<<"0", "0", "7">>)}

InitNormalize ==
  /\ apiKey = Undefined
  /\ HttpIdle
  /\ raw \in RawInputs
  /\ step = 0
  /\ once = Undefined
  /\ twice = Undefined
  /\ BulkIdle
  /\ GetIdle
  /\ ConcIdle
  /\ StoreInit

Normalize ==
  /\ step = 0
  /\ step' = 1
  /\ once' = normalizeInvoiceId(raw)
  /\ UNCHANGED <<raw, twice, httpVars, bulkVars, getVars, concVars, store>>

NormalizeAgain ==
  /\ step = 1
  /\ step' = 2
  /\ twice' = normalizeInvoiceId(once)
  /\ UNCHANGED <<raw, once, httpVars, bulkVars, getVars, concVars, store>>

NextNormalize == Normalize \/ NormalizeAgain

SpecNormalize == InitNormalize /\ [][NextNormalize]_vars

(***************************************************************************)
(* Bulk verification: POST /api/verify-invoices-bulk (srv2 only)           *)
(*   body.invoices is [t, items]: absent, a value that is not an array, or *)
(*   an array.  An element is null, an object with the fields invoiceId    *)
(*   and amount (either may be absent), or any other JSON value, which     *)
(*   destructures to two absent fields.                                    *)
(***************************************************************************)
MaxBulkLen == 2

NullItem == [kind |-> "null", invoiceId |-> Undefined, amount |-> Undefined]

OtherItem == [kind |-> "other", invoiceId |-> Undefined, amount |-> Undefined]

ObjectItem(invoiceId, amount) ==
  [kind |-> "object", invoiceId |-> invoiceId, amount |-> amount]

BulkItems ==
  {
    NullItem,
    OtherItem,
    ObjectItem(Undefined, Str(NatToStr(5000))),
    ObjectItem(Str(S12345), Str(NatToStr(5000))),
    ObjectItem(Str(S12345), Str(NatToStr(9999))),
    ObjectItem(Str(NatToStr(1001)), Num(1250, <<5>>)),
    ObjectItem(Str(NatToStr(2001)), Str(NatToStr(3200))),
    ObjectItem(Str(NatToStr(77777)), Str(NatToStr(5000)))
  }

BulkArrays == UNION {[1..n -> BulkItems] : n \in 0..MaxBulkLen}

BulkBodies ==
  {[t |-> "undefined", items |-> <<>>], [t |-> "object", items |-> <<>>]}
    \cup {[t |-> "array", items |-> a] : a \in BulkArrays}

BulkAuthInputs ==
  {Undefined, ValidAuth, Str(BearerPrefix \o <<"z", "z">>), BareBearer,
   Str(BearerPrefix \o ConfiguredKey \o <<" ", "x">>),
   Str(BearerPrefix \o <<" ">> \o ConfiguredKey)}

BulkRequests ==
  {[auth |-> a, invoices |-> b] : a \in BulkAuthInputs, b \in BulkBodies}

\* the checks before the loop: the status of the rejection, or 0 when the
\* request is let through
bulkAdmit(r, key) ==
  IF r.invoices.t # "array" THEN 400
  ELSE IF ~Truthy(r.auth) \/ ~StartsWith(r.auth.s, BearerPrefix) THEN 401
  ELSE IF SplitSecond(r.auth.s) # key THEN 401
  ELSE 0

\* plausible slip: unshift instead of push
pushResult_unshift(rs, item, isValid) ==
  <<[invoiceId |-> item.invoiceId, amount |-> item.amount,
     isValid |-> isValid]>> \o rs

\* results.push({ invoiceId, amount, isValid, timestamp })
pushResult(rs, item, isValid) ==
  Append(rs, [invoiceId |-> item.invoiceId, amount |-> item.amount,
              isValid |-> isValid])

\* plausible slip: every result is counted
countValid_all(rs) == Len(rs)

\* results.filter(r => r.isValid).length
countValid(rs) == Cardinality({i \in 1..Len(rs) : rs[i].isValid})

bulkSuccess(rs) ==
  [status |-> 200, results |-> rs, totalProcessed |-> Len(rs),
   validCount |-> countValid(rs)]

bulkFailure(status) ==
  [status |-> status, results |-> <<>>, totalProcessed |-> 0, validCount |-> 0]

\* the loop reaches its next element with the results rs: after the last
\* plausible slip: the calls of all remaining items are started together
startLookups_all(items, n) == n..Len(items)

\* the calls started by one iteration of the loop: the call for item n is
\* awaited before the loop goes on
startLookups(items, n) == {n}

\* one the handler responds; destructuring null throws, and the handler's
\* catch block answers 500; otherwise verifyInvoiceLogic is called and
\* suspends in its lookup delay
BulkAdvance(rs) ==
  LET items == bulkReq.invoices.items
      n == Len(rs) + 1
  IN /\ results' = rs
     /\ itemVerdict' = NoItemVerdict
     /\ IF n > Len(items)
          THEN /\ bulkPc' = "responded"
               /\ bulkResp' = bulkSuccess(rs)
               /\ inFlight' = {}
        ELSE IF items[n].kind = "null"
          THEN /\ bulkPc' = "responded"
               /\ bulkResp' = bulkFailure(500)
               /\ inFlight' = {}
        ELSE /\ bulkPc' = "lookup"
             /\ bulkResp' = bulkResp
             /\ inFlight' = startLookups(items, n)

BulkReceive ==
  /\ bulkPc = "idle"
  /\ \E r \in BulkRequests : bulkReq' = r
  /\ bulkPc' = "received"
  /\ results' = <<>>
  /\ bulkResp' = NoBulkResponse
  /\ inFlight' = {}
  /\ itemVerdict' = NoItemVerdict
  /\ UNCHANGED <<httpVars, normVars, getVars, concVars, store>>

\* the handler runs up to its first suspension
BulkHandle ==
  /\ bulkPc = "received"
  /\ LET status == bulkAdmit(bulkReq, apiKey)
     IN IF status # 0
          THEN /\ bulkPc' = "responded"
               /\ bulkResp' = bulkFailure(status)
               /\ results' = results
               /\ inFlight' = inFlight
               /\ itemVerdict' = itemVerdict
          ELSE BulkAdvance(<<>>)
  /\ UNCHANGED <<bulkReq, httpVars, normVars, getVars, concVars, store>>

\* a lookup delay ends: the engine returns its verdict for the current
\* element
BulkResume ==
  /\ bulkPc = "lookup"
  /\ LET n == Len(results) + 1
         item == bulkReq.invoices.items[n]
         isValid == verifyInvoiceLogic("srv2", item.invoiceId, item.amount).isValid
     IN /\ bulkPc' = "settled"
        /\ itemVerdict' = [done |-> TRUE, isValid |-> isValid]
        /\ inFlight' = inFlight \ {n}
        /\ store' = storeAfterVerify(store, "srv2", item.invoiceId)
  /\ UNCHANGED <<bulkReq, results, bulkResp, httpVars, normVars, getVars,
                 concVars>>

\* the loop goes on after `await verifyInvoiceLogic(...)`: the result is
\* pushed and the next iteration runs up to its suspension, or the loop
\* ends and the handler responds
BulkContinue ==
  /\ bulkPc = "settled"
  /\ LET item == bulkReq.invoices.items[Len(results) + 1]
     IN BulkAdvance(pushResult(results, item, itemVerdict.isValid))
  /\ UNCHANGED <<bulkReq, httpVars, normVars, getVars, concVars, store>>

BulkFinish ==
  /\ bulkPc = "responded"
  /\ bulkPc' = "idle"
  /\ bulkReq' = NoBulkRequest
  /\ results' = <<>>
  /\ bulkResp' = NoBulkResponse
  /\ inFlight' = {}
  /\ itemVerdict' = NoItemVerdict
  /\ UNCHANGED <<httpVars, normVars, getVars, concVars, store>>

NextBulk ==
  \/ BulkReceive
  \/ BulkHandle
  \/ BulkResume
  \/ BulkContinue
  \/ BulkFinish

SpecBulk == Init /\ [][NextBulk]_vars

(***************************************************************************)
(* Record lookup: GET /api/invoice/:invoiceId                              *)
(*   srv1, srv2, api2 and api3 register the route; api1 answers 404 from   *)
(*   its '/api/*' fallback.  The path parameter is a non-empty string.     *)
(***************************************************************************)
GetVariants == {"srv1", "srv2", "api2", "api3"}

GetParams ==
  {
    S12345, <<"0">> \o S12345, <<" ">> \o S12345 \o <<" ">>,
    <<"0">>, <<"0", "0">>, <<" ">>,
    NatToStr(2001), NatToStr(1004), NatToStr(100), NatToStr(77777),
    <<"c", "o", "n", "s", "t", "r", "u", "c", "t", "o", "r">>,
    <<"_", "_", "p", "r", "o", "t", "o", "_", "_">>
  }

GetRequests ==
  {[variant |-> v, auth |-> a, invoiceId |-> i] :
     v \in Variants, a \in BulkAuthInputs, i \in GetParams}

\* the authorization check of srv2's route: token !== process.env.API_KEY
getAuthorized(auth, key) ==
  /\ Truthy(auth)
  /\ StartsWith(auth.s, BearerPrefix)
  /\ SplitSecond(auth.s) = key

\* the key the route looks up: the path parameter in server.js, its
\* normalized form in the api deployments
getKey(variant, invoiceId) ==
  IF variant \in ServerVariants THEN invoiceId
  ELSE normalizeInvoiceId(Str(invoiceId)).s

GetResponse(status, kind, id) ==
  [status |-> status, invoice |-> [kind |-> kind, id |-> id]]

\* the whole handler: 404 when the route is missing, 401 from srv2's
\* authorization check, 404 when mockInvoices[key] is falsy, else 200 with
\* whatever the lookup returned
getInvoice(variant, auth, invoiceId, key) ==
  IF variant \notin GetVariants THEN GetResponse(404, "undefined", <<>>)
  ELSE IF variant = "srv2" /\ ~getAuthorized(auth, key)
    THEN GetResponse(401, "undefined", <<>>)
  ELSE LET k == getKey(variant, invoiceId)
           invoice == PropertyGet(mockInvoices(variant), k)
       IN IF invoice.kind = "undefined" THEN GetResponse(404, "undefined", <<>>)
          ELSE IF invoice.kind = "record" THEN GetResponse(200, "record", k)
          ELSE GetResponse(200, "inherited", <<>>)

GetReceive ==
  /\ getPc = "idle"
  /\ \E r \in GetRequests : getReq' = r
  /\ getPc' = "received"
  /\ getResp' = NoGetResponse
  /\ UNCHANGED <<httpVars, normVars, bulkVars, concVars, store>>

GetHandle ==
  /\ getPc = "received"
  /\ getPc' = "responded"
  /\ getResp' = getInvoice(getReq.variant, getReq.auth, getReq.invoiceId, apiKey)
  /\ UNCHANGED <<getReq, httpVars, normVars, bulkVars, concVars, store>>

GetFinish ==
  /\ getPc = "responded"
  /\ getPc' = "idle"
  /\ getReq' = NoGetRequest
  /\ getResp' = NoGetResponse
  /\ UNCHANGED <<httpVars, normVars, bulkVars, concVars, store>>

NextGet ==
  \/ GetReceive
  \/ GetHandle
  \/ GetFinish

SpecGet == Init /\ [][NextGet]_vars

(***************************************************************************)
(* Concurrent calls of verifyInvoiceLogic: every call owns its parameters  *)
(* and locals; a call suspends at `await new Promise(setTimeout)` and the  *)
(* event loop resumes the suspended calls in any order                     *)
(***************************************************************************)
ConcurrentIds == {Str(S12345), Str(NatToStr(77777)), Str(<<>>)}

ConcurrentAmounts == {Str(NatToStr(5000)), Str(NatToStr(1))}

\* the calls in flight or just returned run in one process, hence in one
\* deployment
SameProcess(variant) ==
  \A j \in Slots : calls[j].pc # "free" => calls[j].variant = variant

Suspended(k) == calls[k].pc = "lookup"

\* plausible slip: the arguments are kept in one place shared by all calls
resumeArgs_shared(cs, k) ==
  [invoiceId |-> cs[1].invoiceId, amount |-> cs[1].amount]

\* the parameters a resumed call reads: its own invoiceId and amount
resumeArgs(cs, k) == [invoiceId |-> cs[k].invoiceId, amount |-> cs[k].amount]

\* a call starts: it returns at once or suspends in the lookup delay
CallStart(k) ==
  /\ calls[k].pc = "free"
  /\ \E v \in Variants, i \in ConcurrentIds, a \in ConcurrentAmounts :
       /\ SameProcess(v)
       /\ LET others == \E j \in Slots : j # k /\ Suspended(j)
              started == [pc |-> "lookup", variant |-> v, invoiceId |-> i,
                          amount |-> a, overlapped |-> others,
                          outcome |-> Verdict(FALSE, FALSE, FALSE)]
              done == [started EXCEPT !.pc = "returned",
                         !.outcome = verifyInvoiceLogic(v, i, a)]
          IN calls' =
               [j \in Slots |->
                  IF j = k
                    THEN IF engineWaits(v, i, a) THEN started ELSE done
                  ELSE IF Suspended(j) /\ engineWaits(v, i, a)
                    THEN [calls[j] EXCEPT !.overlapped = TRUE]
                  ELSE calls[j]]
  /\ UNCHANGED <<httpVars, normVars, bulkVars, getVars, store>>

\* the delay of a suspended call ends: it looks the record up and returns
CallResume(k) ==
  /\ Suspended(k)
  /\ LET args == resumeArgs(calls, k)
     IN /\ calls' = [calls EXCEPT ![k].pc = "returned",
                       ![k].outcome = verifyInvoiceLogic(
                                        calls[k].variant, args.invoiceId,
                                        args.amount)]
        /\ store' = storeAfterVerify(store, calls[k].variant, args.invoiceId)
  /\ UNCHANGED <<httpVars, normVars, bulkVars, getVars>>

\* the caller has taken the verdict
CallReturn(k) ==
  /\ calls[k].pc = "returned"
  /\ calls' = [calls EXCEPT ![k] = NoSlot]
  /\ UNCHANGED <<httpVars, normVars, bulkVars, getVars, store>>

NextConcurrent ==
  \/ \E k \in Slots : CallStart(k)
  \/ \E k \in Slots : CallResume(k)
  \/ \E k \in Slots : CallReturn(k)

SpecConcurrent == Init /\ [][NextConcurrent]_vars

(***************************************************************************)
(* The single-request server under the scheduling of the event loop: a     *)
(* received request is handled, and the timer of a suspended call fires    *)
(***************************************************************************)
PcValues == {"idle", "received", "lookup", "settled", "responded"}

\* the handler of a received request runs: Handle is enabled whenever pc is
\* "received" and always leaves it
HandleStep == pc = "received" /\ pc' \in PcValues \ {"received"}

\* the timer of the lookup delay fires and the suspended call goes on
ResumeStep == pc = "lookup" /\ pc' \in PcValues \ {"lookup"}

\* the microtask that resumes the handler after the engine's return runs
RespondStep == pc = "settled" /\ pc' \in PcValues \ {"settled"}

SpecFair ==
  Spec /\ WF_pc(HandleStep) /\ WF_pc(ResumeStep) /\ WF_pc(RespondStep)

(***************************************************************************)
(* The three kinds of reading calls side by side: verify requests, bulk    *)
(* requests and GET requests arrive and are served in any order, each      *)
(* route handling one request at a time, over and over                     *)
(***************************************************************************)
ReadRequests ==
  {Request(v, "verify", ValidAuth, i, Str(NatToStr(5000))) :
     v \in Variants, i \in {Str(S12345), Str(NatToStr(2001))}}

ReadBulkRequests ==
  LET items == {ObjectItem(Str(S12345), Str(NatToStr(5000))),
                ObjectItem(Str(NatToStr(2001)), Str(NatToStr(3200)))}
  IN {[auth |-> ValidAuth, invoices |-> [t |-> "array", items |-> a]] :
        a \in UNION {[1..n -> items] : n \in 0..MaxBulkLen}}

ReadGetRequests ==
  {[variant |-> v, auth |-> ValidAuth, invoiceId |-> i] :
     v \in Variants, i \in {S12345, NatToStr(77777)}}

ReadsReceive ==
  /\ pc = "idle"
  /\ \E r \in ReadRequests : req' = r
  /\ pc' = "received"
  /\ call' = NoCall
  /\ engineCalls' = 0
  /\ resp' = NoResponse
  /\ verdict' = NoVerdict
  /\ responses' = 0
  /\ UNCHANGED <<apiKey, normVars, bulkVars, getVars, concVars, store>>

ReadsBulkReceive ==
  /\ bulkPc = "idle"
  /\ \E r \in ReadBulkRequests : bulkReq' = r
  /\ bulkPc' = "received"
  /\ results' = <<>>
  /\ bulkResp' = NoBulkResponse
  /\ inFlight' = {}
  /\ itemVerdict' = NoItemVerdict
  /\ UNCHANGED <<httpVars, normVars, getVars, concVars, store>>

ReadsGetReceive ==
  /\ getPc = "idle"
  /\ \E r \in ReadGetRequests : getReq' = r
  /\ getPc' = "received"
  /\ getResp' = NoGetResponse
  /\ UNCHANGED <<httpVars, normVars, bulkVars, concVars, store>>

NextReads ==
  \/ ReadsReceive
  \/ Handle
  \/ Resume
  \/ Respond
  \/ Finish
  \/ ReadsBulkReceive
  \/ BulkHandle
  \/ BulkResume
  \/ BulkContinue
  \/ BulkFinish
  \/ ReadsGetReceive
  \/ GetHandle
  \/ GetFinish

SpecReads == Init /\ [][NextReads]_vars

(***************************************************************************)
(* Vocabulary of the claims                                                *)
(***************************************************************************)
\* the handler has invoked the engine and sent the response
EngineAnswered == pc = "responded" /\ engineCalls > 0

\* the canonical form of the identifier the engine was called with
CanonicalId == normalizeInvoiceId(call.invoiceId)

\* the seeded record stored under exactly this key, if any
SeededRecords(variant, key) == {r \in mockInvoices(variant) : r.id = key}

\* the record the server.js engines look up: no normalization there
CalledRecords ==
  IF call.invoiceId.t \in {"null", "undefined"} \/ StringifyThrows(call.invoiceId)
    THEN {}
    ELSE SeededRecords(req.variant, ToStr(call.invoiceId))

\* a string or number whose whole text is a decimal literal
DenotesNumber(v) ==
  \/ v.t = "number" /\ v.n.k = "fin"
  \/ /\ v.t = "string"
     /\ v.s # <<>>
     /\ \A j \in 1..Len(v.s) : IsDigit(v.s[j]) \/ v.s[j] = "."
     /\ Cardinality({j \in 1..Len(v.s) : v.s[j] = "."}) <= 1
     /\ parseFloat(v).k = "fin"

\* a value from which parseFloat reads no number at all
NotNumeric(v) == v.t # "number" /\ parseFloat(v).k = "nan"

\* the first six fraction digits as a natural number
Micro(fd) ==
  LET d(j) == IF j <= Len(fd) THEN fd[j] ELSE 0
  IN 100000 * d(1) + 10000 * d(2) + 1000 * d(3) + 100 * d(4) + 10 * d(5) + d(6)

\* |a - c| in millionths, exactly, capped at two units
DistanceMicro(a, c) ==
  LET whole == a.i - c.i
      part == Micro(a.fd) - Micro(c.fd)
  IN IF whole > 1 \/ whole < -1 THEN 2000000
     ELSE IF whole * 1000000 + part < 0 THEN -(whole * 1000000 + part)
     ELSE whole * 1000000 + part

\* the credential the spec asks for: a Bearer header whose token is the
\* configured secret
CarriesSecret(auth, key) ==
  /\ Truthy(key)
  /\ auth.t = "string"
  /\ StartsWith(auth.s, BearerPrefix)
  /\ SplitSecond(auth.s) = key

(***************************************************************************)
(* Claims                                                                  *)
(***************************************************************************)

\* C1: an identifier whose canonical form is not the id of a seeded record
\* is answered isValid=false without a fault, in every engine.
\* (Refuted by the api engines: mockInvoices['constructor'] is the
\* property inherited from Object.prototype, which is truthy.)
C1_UnknownIdIsInvalid ==
  (/\ EngineAnswered
   /\ call.invoiceId.t \in {"string", "number"}
   /\ (CanonicalId = Null \/ CanonicalId.s \notin SeededIds(req.variant)))
  => (resp.status = 200 /\ resp.isValid = "false")

\* C2: in server.js, a claimed amount that is not numeric is rejected for
\* every existing pending record.
\* (Refuted by srv1: NaN > epsilon is false, so the mismatch branch is
\* skipped.)
C2_NonNumericAmountRejected ==
  (/\ EngineAnswered
   /\ req.variant \in ServerVariants
   /\ \E r \in CalledRecords : r.status = "pending"
   /\ NotNumeric(call.amount))
  => resp.isValid = "false"

\* C3: normalizeInvoiceId returns null for null, undefined, '' and every
\* string that is empty after trimming.
\* (Refuted: '  ' passes the === '' test and falls through to '0'.)
C3_BlankFailsToNormalize ==
  (/\ step >= 1
   /\ \/ raw.t \in {"null", "undefined"}
      \/ raw.t = "string" /\ Trim(raw.s) = <<>>)
  => once = Null

\* C4: normalization is idempotent wherever it succeeds.
\* (Refuted: '0 1' gives ' 1', which gives '1'.)
C4_NormalizeIdempotent ==
  (step = 2 /\ once # Null) => twice = once

\* C5: two raw identifiers with one canonical id get one verdict for the
\* same claimed amount, in every engine.
\* (Refuted by server.js, which looks the raw identifier up unnormalized.)
C5_SameCanonicalSameVerdict ==
  EngineAnswered =>
    \A other \in InvoiceIdInputs :
      (/\ ~StringifyThrows(call.invoiceId)
       /\ ~StringifyThrows(other)
       /\ CanonicalId # Null
       /\ normalizeInvoiceId(other) = CanonicalId)
      => (verifyInvoiceLogic(req.variant, other, call.amount).isValid
            <=> resp.isValid = "true")

\* C6: POST /api/verify-invoice invokes the engine only for a request that
\* carries the configured bearer secret, in every deployment.
\* (Refuted by the api deployments, which check no credential.)
C6_EngineOnlyAfterAuth ==
  (req.endpoint = "verify" /\ engineCalls > 0)
  => CarriesSecret(req.auth, apiKey)

\* C7 as stated: in server.js every request to POST /api/verify-invoice
\* without the right credential is answered 401, whatever its body and the
\* configuration.
C7_AuthFailureAlways401 ==
  (/\ pc = "responded"
   /\ req.variant \in ServerVariants
   /\ req.endpoint = "verify"
   /\ ~CarriesSecret(req.auth, apiKey))
  => resp.status = 401

\* the auth failures server.js answers with 401: no header, no Bearer
\* prefix, or a token other than the configured API_KEY (in srv2 also any
\* token when no API_KEY is configured)
AuthFailure401(r, key) ==
  \/ ~Truthy(r.auth)
  \/ ~StartsWith(r.auth.s, BearerPrefix)
  \/ Truthy(key) /\ SplitSecond(r.auth.s) # key
  \/ ~Truthy(key) /\ r.variant = "srv2"

\* C7 amended: in server.js a request to POST /api/verify-invoice that
\* passes parameter validation and has no Authorization header, or one that
\* does not start with "Bearer ", or one whose token differs from the
\* configured API_KEY, is answered 401; so is, in srv2, every request that
\* passes validation while no API_KEY is configured.
C7_AuthFailure401AfterValidation ==
  (/\ pc = "responded"
   /\ req.variant \in ServerVariants
   /\ req.endpoint = "verify"
   /\ missingParameters(req).go
   /\ AuthFailure401(req, apiKey))
  => (resp.status = 401 /\ engineCalls = 0)

\* C7 witness: srv1 has answered a well-formed request that carries a
\* wrong bearer token while API_KEY is configured
C7_Witness ==
  /\ pc = "responded"
  /\ req.variant = "srv1"
  /\ req.endpoint = "verify"
  /\ missingParameters(req).go
  /\ Truthy(apiKey)
  /\ Truthy(req.auth)
  /\ StartsWith(req.auth.s, BearerPrefix)
  /\ SplitSecond(req.auth.s) # apiKey
  /\ resp.status = 401

\* C8: in server.js a record whose status is paid, rejected, cancelled or
\* disputed never verifies as valid, whatever the claimed amount.
C8_StatusGating ==
  (/\ EngineAnswered
   /\ req.variant \in ServerVariants
   /\ \E r \in CalledRecords :
        r.status \in {"paid", "rejected", "cancelled", "disputed"})
  => resp.isValid = "false"

\* C8 witness: the engine has answered for a paid record whose amount the
\* request matches exactly
C8_Witness ==
  /\ EngineAnswered
  /\ req.variant \in ServerVariants
  /\ \E r \in CalledRecords :
       /\ r.status = "paid"
       /\ DenotesNumber(call.amount)
       /\ DistanceMicro(r.amount, parseFloat(call.amount)) = 0
  /\ resp.isValid = "false"

\* C9: for a numeric claimed amount the amount-checking engines answer
\* valid exactly when the record exists, is pending and its amount is
\* within 0.001 of the claimed amount.
\* (Refuted: srv2 compares with !==, and srv1 compares binary doubles, so
\* 5000.001 against 5000 is rejected.)
C9_ValidIffPendingWithinTolerance ==
  (/\ EngineAnswered
   /\ req.variant \in ServerVariants
   /\ DenotesNumber(call.amount))
  => (resp.isValid = "true"
        <=> \E r \in CalledRecords :
              /\ r.status = "pending"
              /\ DistanceMicro(r.amount, parseFloat(call.amount)) <= 1000)

\* C10: for a pending record a claimed amount exactly 0.001 away is
\* accepted and one 0.0011 away is rejected, in both server.js engines.
\* (Refuted: both reject 5000.001 against 5000.)
C10_ToleranceBoundary ==
  (/\ EngineAnswered
   /\ req.variant \in ServerVariants
   /\ DenotesNumber(call.amount))
  => \A r \in CalledRecords :
       r.status = "pending" =>
         /\ DistanceMicro(r.amount, parseFloat(call.amount)) = 1000
              => resp.isValid = "true"
         /\ DistanceMicro(r.amount, parseFloat(call.amount)) = 1100
              => resp.isValid = "false"

\* the records an engine call looks up: server.js uses the raw identifier
\* as the key, the api engines use its canonical form
LookedUpRecords ==
  IF req.variant \in ServerVariants THEN CalledRecords
  ELSE IF ~StringifyThrows(call.invoiceId) /\ CanonicalId # Null
    THEN SeededRecords(req.variant, CanonicalId.s)
  ELSE {}

\* C11: when no claimed amount is supplied the amount check is skipped, so
\* an existing pending record verifies as valid, in every engine.
\* (Refuted by server.js: srv1 rejects an amount whose typeof is neither
\* string nor number, and in srv2 parseFloat(undefined) is NaN, which is
\* !== the record amount.)
C11_NoAmountSkipsCheck ==
  (/\ EngineAnswered
   /\ call.amount = Undefined
   /\ \E r \in LookedUpRecords : r.status = "pending")
  => resp.isValid = "true"

\* the bulk request got past the array and authorization checks
BulkAdmitted == bulkAdmit(bulkReq, apiKey) = 0

\* the verdict of the srv2 engine for one element on its own
AloneVerdict(item) ==
  verifyInvoiceLogic("srv2", item.invoiceId, item.amount).isValid

\* an element that is an object carrying both fields
WellFormed(item) ==
  item.kind = "object" /\ item.invoiceId # Undefined /\ item.amount # Undefined

\* C12: in a bulk request one element's failure never aborts or affects
\* another's evaluation: whatever malformed elements the array holds, every
\* other element gets the result it would get alone.
\* (Refuted: destructuring a null element throws, the handler's catch block
\* answers 500 and no element gets a result.)
C12_BulkItemsIndependent ==
  (bulkPc = "responded" /\ BulkAdmitted)
  => LET items == bulkReq.invoices.items
     IN \A i \in 1..Len(items) :
          items[i].kind # "null"
          => /\ bulkResp.status = 200
             /\ i <= Len(bulkResp.results)
             /\ bulkResp.results[i].isValid = AloneVerdict(items[i])

\* C13: for an array of well-formed elements the bulk response has one
\* result per element, in input order, each echoing the element's invoiceId
\* and amount and carrying the verdict the element gets alone.
C13_BulkPreservesOrder ==
  LET items == bulkReq.invoices.items
  IN (/\ bulkPc = "responded"
      /\ BulkAdmitted
      /\ \A i \in 1..Len(items) : WellFormed(items[i]))
     => /\ bulkResp.status = 200
        /\ Len(bulkResp.results) = Len(items)
        /\ \A i \in 1..Len(items) :
             bulkResp.results[i] =
               [invoiceId |-> items[i].invoiceId, amount |-> items[i].amount,
                isValid |-> AloneVerdict(items[i])]

\* C13 witness: a bulk response for two different well-formed elements,
\* the first valid and the second not
C13_Witness ==
  LET items == bulkReq.invoices.items
  IN /\ bulkPc = "responded"
     /\ bulkResp.status = 200
     /\ Len(items) = 2
     /\ WellFormed(items[1]) /\ WellFormed(items[2])
     /\ items[1].invoiceId # items[2].invoiceId
     /\ Len(bulkResp.results) = 2
     /\ bulkResp.results[1].isValid
     /\ ~bulkResp.results[2].isValid

\* C14: in a successful bulk response totalProcessed is the number of input
\* elements and validCount is the number of results whose isValid is true,
\* so 0 <= validCount <= totalProcessed.
C14_BulkCounts ==
  (bulkPc = "responded" /\ bulkResp.status = 200)
  => /\ bulkResp.totalProcessed = Len(bulkReq.invoices.items)
     /\ bulkResp.validCount =
          Cardinality({i \in 1..Len(bulkResp.results) :
                         bulkResp.results[i].isValid})
     /\ 0 <= bulkResp.validCount
     /\ bulkResp.validCount <= bulkResp.totalProcessed

\* C14 witness: a successful bulk response for two elements of which
\* exactly one is valid
C14_Witness ==
  /\ bulkPc = "responded"
  /\ bulkResp.status = 200
  /\ bulkResp.totalProcessed = 2
  /\ bulkResp.validCount = 1

\* C15: while API_KEY is not configured, every request to
\* POST /api/verify-invoice of server.js that passes parameter validation
\* is answered 500, never 401 and never with a verdict.
\* (Refuted: srv1 answers 401 when the header is absent or has no Bearer
\* prefix, before it looks at API_KEY; srv2 answers 401 in every case.)
C15_MissingSecretIs500 ==
  (/\ pc = "responded"
   /\ req.variant \in ServerVariants
   /\ req.endpoint = "verify"
   /\ apiKey = Undefined
   /\ missingParameters(req).go)
  => resp.status = 500

\* C16: a request to POST /api/verify-invoice whose invoiceId is absent,
\* null or the empty string is answered 400 without an engine call, in
\* every deployment.
\* (Refuted by api1 and api3, which reject only undefined and null: the
\* empty string reaches the engine and is answered 200 with isValid=false.)
C16_MissingIdIs400 ==
  (/\ pc = "responded"
   /\ req.endpoint = "verify"
   /\ req.invoiceId \in {Undefined, Null, Str(<<>>)})
  => (resp.status = 400 /\ engineCalls = 0)

\* C17: every authorized request to POST /api/verify-invoice whose
\* invoiceId is a non-empty string or a number, with or without an amount,
\* is answered 200 with a boolean isValid.
\* (Refuted by server.js: a request without an amount, or with the numeric
\* invoiceId 0, is answered 400 without isValid.)
C17_VerdictAlwaysPresent ==
  (/\ pc = "responded"
   /\ req.endpoint = "verify"
   /\ CarriesSecret(req.auth, apiKey)
   /\ \/ req.invoiceId.t = "string" /\ req.invoiceId.s # <<>>
      \/ req.invoiceId.t = "number" /\ req.invoiceId.n.k = "fin")
  => (resp.status = 200 /\ resp.isValid \in {"true", "false"})

\* the failure paths of an engine call, read off its arguments: an
\* internal exception, a normalization failure, no record under the key,
\* a status other than pending, an amount that does not reconcile
FailurePath(variant, invoiceId, amount) ==
  \/ StringifyThrows(invoiceId)
  \/ variant = "srv1" /\ StringifyThrows(amount)
  \/ variant \in ServerVariants /\ invoiceId.t \in {"null", "undefined"}
  \/ /\ ~StringifyThrows(invoiceId)
     /\ variant \in ServerVariants => invoiceId.t \notin {"null", "undefined"}
     /\ LET key == IF variant \in ServerVariants THEN Str(ToStr(invoiceId))
                   ELSE normalizeInvoiceId(invoiceId)
        IN \/ key = Null
           \/ /\ key # Null
              /\ LET invoice == PropertyGet(mockInvoices(variant), key.s)
                 IN \/ invoice.kind = "undefined"
                    \/ /\ invoice.kind # "undefined"
                       /\ variant \in ServerVariants
                       /\ \/ invoice.status # "pending"
                          \/ StringifyThrows(amount)
                          \/ /\ ~StringifyThrows(amount)
                             /\ amountRejects(variant, invoice, amount)

\* C18: the engine never throws: for every invoiceId and amount (absent,
\* null, string, number, boolean, object, array) the call completes with a
\* boolean, and every failure path (normalization failure, record not
\* found, status mismatch, amount mismatch, internal exception) yields
\* false.
C18_EngineNeverThrows ==
  verdict.done
  => /\ ~verdict.outcome.raised
     /\ verdict.outcome.isValid \in BOOLEAN
     /\ FailurePath(req.variant, call.invoiceId, call.amount)
          => ~verdict.outcome.isValid

\* C18 witness: the engine has returned false from its catch block for an
\* object identifier that cannot be converted to a string
C18_Witness ==
  /\ verdict.done
  /\ StringifyThrows(call.invoiceId)
  /\ verdict.outcome.caught
  /\ ~verdict.outcome.raised
  /\ ~verdict.outcome.isValid

\* C19: GET /api/invoice/:invoiceId answers 200 with the record whose id
\* is the looked-up key exactly when that key is the id of a seeded record,
\* and 404 otherwise (for a request the route admits).
\* (Refuted: for the key 'constructor' the lookup returns the property
\* inherited from Object.prototype, which is truthy, so the route answers
\* 200 without a record.)
C19_GetRecordOr404 ==
  (/\ getPc = "responded"
   /\ getReq.variant \in GetVariants
   /\ getReq.variant = "srv2" => getAuthorized(getReq.auth, apiKey))
  => LET k == getKey(getReq.variant, getReq.invoiceId)
     IN IF k \in SeededIds(getReq.variant)
          THEN /\ getResp.status = 200
               /\ getResp.invoice.kind = "record"
               /\ getResp.invoice.id = k
          ELSE getResp.status = 404

\* a non-empty string of zeros
AllZeros(v) ==
  v.t = "string" /\ v.s # <<>> /\ \A j \in 1..Len(v.s) : v.s[j] = "0"

\* C20: "0", "00", "000" and the number 0 normalize to "0", "007"
\* normalizes to "7", and an all-zero identifier is never a normalization
\* failure.
C20_ZerosNormalizeToZero ==
  step >= 1
  => /\ (AllZeros(raw) \/ raw = Num(0, <<>>)) => once = Str(<<"0">>)
     /\ raw = Str(<<"0", "0", "7">>) => once = Str(<<"7">>)

\* C20 witness: "000" has been normalized to "0"
C20_Witness ==
  /\ step >= 1
  /\ raw = Str(<<"0", "0", "0">>)
  /\ once = Str(<<"0">>)

\* C21: in the api engines a normalization failure returns false at once:
\* the call never suspends in the lookup delay, so no lookup is attempted.
C21_NormalizationFailureReturnsAtOnce ==
  (/\ req.variant \in ApiVariants
   /\ engineCalls > 0
   /\ ~StringifyThrows(call.invoiceId)
   /\ normalizeInvoiceId(call.invoiceId) = Null)
  => /\ pc # "lookup"
     /\ verdict.done
     /\ ~verdict.outcome.waited
     /\ ~verdict.outcome.isValid

\* C21 witness: an api engine has returned for the empty string, which
\* passes the handler's presence check and fails to normalize
C21_Witness ==
  /\ req.variant = "api1"
  /\ req.endpoint = "verify"
  /\ call.invoiceId = Str(<<>>)
  /\ verdict.done
  /\ ~verdict.outcome.waited
  /\ resp.status = 200
  /\ resp.isValid = "false"

\* C22: concurrent calls are independent: whatever the interleaving of
\* their suspensions and resumptions, the verdict a call returns is the
\* verdict the same call produces when it runs alone.
C22_ConcurrentCallsIndependent ==
  \A k \in Slots :
    calls[k].pc = "returned"
    => calls[k].outcome =
         verifyInvoiceLogic(calls[k].variant, calls[k].invoiceId,
                            calls[k].amount)

\* C22 witness: two calls with different arguments were suspended at the
\* same time and have returned different verdicts
C22_Witness ==
  /\ calls[1].pc = "returned" /\ calls[1].overlapped
  /\ calls[2].pc = "returned" /\ calls[2].overlapped
  /\ calls[1].invoiceId # calls[2].invoiceId
  /\ calls[1].outcome.isValid
  /\ ~calls[2].outcome.isValid

\* C23: no verification call blocks for ever: a call waits for the lookup
\* at most once (the step that ends the wait ends the call), and every
\* request received is eventually responded to.
C23_EveryRequestAnswered ==
  /\ [][/\ pc = "lookup" => pc' = "settled" /\ verdict'.done
        /\ pc = "settled" => pc' = "responded"]_vars
  /\ (pc = "received") ~> (pc = "responded")

\* C23 witness: a request was answered after its engine call had waited
\* for the lookup
C23_Witness ==
  /\ pc = "responded"
  /\ req.endpoint = "verify"
  /\ engineCalls = 1
  /\ verdict.done
  /\ verdict.outcome.waited

\* C24: verification only reads: whatever verify, bulk and GET calls have
\* been made, in whatever order, every deployment still holds exactly the
\* records it started with, each with its amount and its status.
C24_RecordsNeverChange ==
  \A v \in Variants : store[v] = mockInvoicesLiteral(v)

\* C24 witness: a verify call has found record 12345 valid, a bulk request
\* has been answered with two verdicts, one of them valid, and a GET
\* request has returned record 12345; the record is as it was
C24_Witness ==
  /\ pc = "responded"
  /\ verdict.done
  /\ verdict.outcome.waited
  /\ verdict.outcome.isValid
  /\ call.invoiceId = Str(S12345)
  /\ bulkPc = "responded"
  /\ bulkResp.status = 200
  /\ bulkResp.totalProcessed = 2
  /\ bulkResp.validCount >= 1
  /\ getPc = "responded"
  /\ getReq.variant = "srv2"
  /\ getResp = GetResponse(200, "record", S12345)
  /\ \E r \in store[req.variant] :
       r.id = S12345 /\ r \in mockInvoicesLiteral(req.variant)

\* C25: every value normalizeInvoiceId returns, other than the failure
\* value null, is a non-empty string, and it begins with a zero only when
\* it is exactly "0".
C25_CanonicalFormShape ==
  step >= 1 /\ once # Null
  => /\ once.t = "string"
     /\ once.s # <<>>
     /\ (Head(once.s) = "0" => once.s = <<"0">>)

\* C25 witness: an identifier with two leading zeros has been normalized
C25_Witness ==
  /\ step >= 1
  /\ raw = Str(<<"0", "0", "1">>)
  /\ once = Str(<<"1">>)

\* C26: in the status-agnostic engines of the api deployments the verdict
\* depends on the identifier alone: it is the same for every amount field,
\* and it is true exactly when the canonical id has a record.
\* (Refuted in its second half: for 'constructor' the lookup returns the
\* property inherited from Object.prototype and the verdict is true.)
C26_VerdictDependsOnIdOnly ==
  (/\ req.variant \in ApiVariants
   /\ verdict.done
   /\ ~StringifyThrows(call.invoiceId))
  => /\ \A m \in ApiAmountInputs :
          verifyInvoiceLogic(req.variant, call.invoiceId, m).isValid
            = verdict.outcome.isValid
     /\ verdict.outcome.isValid
          <=> /\ CanonicalId # Null
              /\ SeededRecords(req.variant, CanonicalId.s) # {}

\* C27: in server.js the bearer check lets a request through only if its
\* Authorization header is exactly "Bearer " followed by the configured
\* API_KEY; any other header (text after the token, extra spaces before
\* it) is answered 401.
\* (Refuted: the token is authHeader.split(' ')[1], so whatever follows a
\* second space is never compared and "Bearer <API_KEY> extra" is let
\* through.)
C27_BearerHeaderExact ==
  (/\ req.variant \in ServerVariants
   /\ req.endpoint = "verify"
   /\ pc = "responded"
   /\ Truthy(apiKey))
  => IF req.auth = Str(BearerPrefix \o apiKey.s)
       THEN TRUE
       ELSE engineCalls = 0 /\ resp.status \in {400, 401}

\* C28: when API_KEY is not configured (unset or empty, the values the
\* code's own `!process.env.API_KEY` test reports as not set), no request
\* is authenticated on the guarded endpoints of server.js: the engine is
\* not called by POST /api/verify-invoice or by the bulk route, and the GET
\* route returns no record.
\* (Refuted by the bulk and GET routes, which compare with
\* `token !== process.env.API_KEY` only: with API_KEY='' the header
\* "Bearer  x" splits to the empty token, which equals the key.)
C28_NoKeyNoAccess ==
  ~Truthy(apiKey)
  => /\ (req.variant \in ServerVariants /\ req.endpoint = "verify"
           => engineCalls = 0)
     /\ bulkPc # "lookup"
     /\ bulkResp.status # 200
     /\ (getReq.variant = "srv2" => getResp.status \notin {200, 404})

\* C29: the bulk route evaluates its items strictly one after another: at
\* most one lookup is in flight, the lookup of item i is in flight only
\* when the verdicts of the i-1 items before it have been appended to
\* results, and the loop's response (the 200) is sent only when no lookup is
\* pending and every item has its result.
C29_BulkSequential ==
  LET items == bulkReq.invoices.items
  IN /\ Cardinality(inFlight) <= 1
     /\ \A i \in inFlight : i \in 1..Len(items) /\ Len(results) = i - 1
     /\ (bulkPc = "lookup" <=> inFlight # {})
     /\ (bulkResp.status = 200
           => /\ inFlight = {}
              /\ Len(bulkResp.results) = Len(items))

\* C29 witness: the lookup of the second item is in flight and the first
\* item's verdict is in results
C29_Witness ==
  /\ bulkPc = "lookup"
  /\ inFlight = {2}
  /\ Len(results) = 1
  /\ Len(bulkReq.invoices.items) = 2

\* C30: a request handled by a POST /api/verify-invoice handler receives
\* exactly one response: none while the handler runs or waits, and one,
\* with status 200, 400, 401 or 500, once it has responded, whatever the
\* path; and in a 200 response the message is 'Invoice verified
\* successfully' exactly when isValid is true.
C30_ExactlyOneResponse ==
  req.endpoint = "verify"
  => /\ (pc \in {"received", "lookup", "settled"}
           => responses = 0 /\ resp = NoResponse)
     /\ (pc = "responded"
           => /\ responses = 1
              /\ resp.status \in {200, 400, 401, 500})
     /\ (pc = "responded" /\ resp.status = 200
           => /\ resp.isValid \in {"true", "false"}
              /\ (resp.message = "Invoice verified successfully"
                    <=> resp.isValid = "true"))

\* C30 witness: an evaluated verdict of false went out in the one response
\* of its request, a 200
C30_Witness ==
  /\ req.endpoint = "verify"
  /\ pc = "responded"
  /\ verdict.done
  /\ resp.status = 200
  /\ resp.isValid = "false"
  /\ resp.message = "Invoice verification failed"
  /\ responses = 1

====
